---- MODULE Spec2Model ----
(***************************************************************************)
(* Model of Processors::PCDSequence::PCDSequence                          *)
(* (src/src/Components/PCDSequence/PCDSequence.cpp): the playback          *)
(* controller that serves the point clouds of a directory one per tick.    *)
(*                                                                         *)
(* A file of the directory is a number 1..MaxFile (its path; paths are     *)
(* ordered as the numbers are).  The cloud decoded from file f is written  *)
(* f as well; the empty cloud allocated by onInit is EmptyCloud.  An output *)
(* port holds what the last handler call wrote to it (NoCloud, 0 signals:  *)
(* nothing written).                                                       *)
(***************************************************************************)
EXTENDS Integers, Sequences, FiniteSets, TLC

\* ------------------------------------------------------------------ bounds
MaxFile == 2            \* files that can exist in the directory
MaxLen == MaxFile       \* longest file list searchFiles can return
MaxTicks == (2 * MaxLen) + 1   \* ticks counted in an undisturbed run

EmptyCloud == 0
NoCloud == -2
NoIndex == -1           \* previous_index before any cloud has been served

Min(a, b) == IF a < b THEN a ELSE b

\* --------------------------------------------------------- state variables
VARIABLES
    \* properties (configuration)
    prop_sort, prop_loop, prop_auto_publish_cloud,
    prop_auto_next_cloud, prop_auto_prev_cloud,
    prop_return_xyz, prop_return_xyzrgb, prop_return_xyzsift,
    \* members
    files, index, previous_index,
    next_cloud_flag, prev_cloud_flag, reload_sequence_flag, publish_cloud_flag,
    cloud_xyz, cloud_xyzrgb, cloud_xyzsift,
    \* what the last handler call wrote to the output ports
    out_cloud_xyz, out_cloud_xyzrgb, out_cloud_xyzsift,
    out_end_of_sequence_trigger,
    \* observation of the last handler call: which step it was (for a tick,
    \* where the tick ended) and what the loader answered for each kind
    step, res_xyz, res_xyzrgb, res_xyzsift,
    \* observation of the run: no request and no failed load so far, and the
    \* number of ticks of such a run
    clean, ticks,
    \* position of onLoadCloud when another context may run between its
    \* statements ("idle": not in the tick), and the requests that arrived
    \* while the tick was in progress
    pc, midtick

props == <<prop_sort, prop_loop, prop_auto_publish_cloud, prop_auto_next_cloud,
           prop_auto_prev_cloud, prop_return_xyz, prop_return_xyzrgb,
           prop_return_xyzsift>>
members == <<files, index, previous_index, next_cloud_flag, prev_cloud_flag,
             reload_sequence_flag, publish_cloud_flag,
             cloud_xyz, cloud_xyzrgb, cloud_xyzsift>>
ports == <<out_cloud_xyz, out_cloud_xyzrgb, out_cloud_xyzsift,
           out_end_of_sequence_trigger>>
observed == <<step, res_xyz, res_xyzrgb, res_xyzsift>>
control == <<pc, midtick>>
vars == <<props, members, ports, observed, clean, ticks, control>>

\* ------------------------------------------------------------ file listing
\* The sequences without repetition over 1..MaxFile of length at most MaxLen:
\* what Utils::searchFiles can return, in enumeration order.
RECURSIVE Enumerations(_)
Enumerations(len) ==
    IF len = 0 THEN {<<>>}
    ELSE LET shorter == Enumerations(len - 1)
         IN shorter \cup
            {Append(s, f) : s \in {t \in shorter : Len(t) = len - 1},
                            f \in 1..MaxFile}

NoDuplicates(s) == \A i, j \in 1..Len(s) : i # j => s[i] # s[j]

searchFiles == {s \in Enumerations(MaxLen) : NoDuplicates(s)}

\* findFiles(): the new value of files.
\* std::sort orders the paths ascending.
findFiles(found) ==
    IF prop_sort THEN SortSeq(found, LAMBDA a, b : a < b) ELSE found

\* ------------------------------------------------------------ construction
\* The constructor registers the properties: any configuration of the
\* playback modes and of the returned kinds may be loaded, mode.sort keeps
\* its default (true).  onInit sets the indices, three of the four flags and
\* the empty clouds.  publish_cloud_flag is assigned nowhere before the first
\* tick reads it, so its first value is indeterminate.  index and
\* previous_index are signed (they are compared with 0 and set to -1).
Init ==
    /\ prop_sort = TRUE
    /\ prop_loop \in BOOLEAN
    /\ prop_auto_publish_cloud \in BOOLEAN
    /\ prop_auto_next_cloud \in BOOLEAN
    /\ prop_auto_prev_cloud \in BOOLEAN
    /\ prop_return_xyz \in BOOLEAN
    /\ prop_return_xyzrgb \in BOOLEAN
    /\ prop_return_xyzsift \in BOOLEAN
    /\ files = <<>>
    /\ index = 0
    /\ previous_index = NoIndex
    /\ next_cloud_flag = FALSE
    /\ prev_cloud_flag = FALSE
    /\ reload_sequence_flag = TRUE
    /\ publish_cloud_flag \in BOOLEAN
    /\ cloud_xyz = EmptyCloud
    /\ cloud_xyzrgb = EmptyCloud
    /\ cloud_xyzsift = EmptyCloud
    /\ out_cloud_xyz = NoCloud
    /\ out_cloud_xyzrgb = NoCloud
    /\ out_cloud_xyzsift = NoCloud
    /\ out_end_of_sequence_trigger = 0
    /\ step = "init"
    /\ res_xyz = "none"
    /\ res_xyzrgb = "none"
    /\ res_xyzsift = "none"
    /\ clean = TRUE
    /\ ticks = 0
    /\ pc = "idle"
    /\ midtick = {}

\* -------------------------------------------------------- request handlers
\* A request handler writes to no port and calls no loader.  It is observed
\* as "request", or as "repeat" when the flag it sets was set already, and it
\* ends the undisturbed run.
Requested(flag) ==
    /\ step' = IF flag THEN "repeat" ELSE "request"
    /\ out_cloud_xyz' = NoCloud
    /\ out_cloud_xyzrgb' = NoCloud
    /\ out_cloud_xyzsift' = NoCloud
    /\ out_end_of_sequence_trigger' = 0
    /\ res_xyz' = "none"
    /\ res_xyzrgb' = "none"
    /\ res_xyzsift' = "none"
    /\ clean' = FALSE
    /\ ticks' = 0

\* The handler does not move the tick; a request made while the tick is in
\* progress is noted.
Arrived(request) ==
    /\ pc' = pc
    /\ midtick' = IF pc = "idle" THEN midtick ELSE midtick \cup {request}

\* publish_cloud_flag = true
SetPublishCloudFlag(flag) == TRUE

onPublishCloud ==
    /\ publish_cloud_flag' = SetPublishCloudFlag(publish_cloud_flag)
    /\ Requested(publish_cloud_flag)
    /\ Arrived("publish")
    /\ UNCHANGED <<props, files, index, previous_index, next_cloud_flag,
                   prev_cloud_flag, reload_sequence_flag, cloud_xyz,
                   cloud_xyzrgb, cloud_xyzsift>>

\* The triggered handlers run when an item is present on their trigger port
\* and read it; the item is a unit value, so nothing of it is kept.
onTriggeredPublishCloud ==
    /\ publish_cloud_flag' = SetPublishCloudFlag(publish_cloud_flag)
    /\ Requested(publish_cloud_flag)
    /\ Arrived("publish")
    /\ UNCHANGED <<props, files, index, previous_index, next_cloud_flag,
                   prev_cloud_flag, reload_sequence_flag, cloud_xyz,
                   cloud_xyzrgb, cloud_xyzsift>>

\* Mutant of SetNextCloudFlag: the request toggles the flag.
ToggleNextCloudFlag(flag) == ~flag

\* next_cloud_flag = true
SetNextCloudFlag(flag) == TRUE

onLoadNextCloud ==
    /\ next_cloud_flag' = SetNextCloudFlag(next_cloud_flag)
    /\ Requested(next_cloud_flag)
    /\ Arrived("next")
    /\ UNCHANGED <<props, files, index, previous_index, prev_cloud_flag,
                   reload_sequence_flag, publish_cloud_flag, cloud_xyz,
                   cloud_xyzrgb, cloud_xyzsift>>

onTriggeredLoadNextCloud ==
    /\ next_cloud_flag' = SetNextCloudFlag(next_cloud_flag)
    /\ Requested(next_cloud_flag)
    /\ Arrived("next")
    /\ UNCHANGED <<props, files, index, previous_index, prev_cloud_flag,
                   reload_sequence_flag, publish_cloud_flag, cloud_xyz,
                   cloud_xyzrgb, cloud_xyzsift>>

\* prev_cloud_flag = true
SetPrevCloudFlag(flag) == TRUE

onLoadPrevCloud ==
    /\ prev_cloud_flag' = SetPrevCloudFlag(prev_cloud_flag)
    /\ Requested(prev_cloud_flag)
    /\ Arrived("prev")
    /\ UNCHANGED <<props, files, index, previous_index, next_cloud_flag,
                   reload_sequence_flag, publish_cloud_flag, cloud_xyz,
                   cloud_xyzrgb, cloud_xyzsift>>

onTriggeredLoadPrevCloud ==
    /\ prev_cloud_flag' = SetPrevCloudFlag(prev_cloud_flag)
    /\ Requested(prev_cloud_flag)
    /\ Arrived("prev")
    /\ UNCHANGED <<props, files, index, previous_index, next_cloud_flag,
                   reload_sequence_flag, publish_cloud_flag, cloud_xyz,
                   cloud_xyzrgb, cloud_xyzsift>>

\* reload_sequence_flag = true
SetReloadSequenceFlag(flag) == TRUE

onSequenceReload ==
    /\ reload_sequence_flag' = SetReloadSequenceFlag(reload_sequence_flag)
    /\ Requested(reload_sequence_flag)
    /\ Arrived("reload")
    /\ UNCHANGED <<props, files, index, previous_index, next_cloud_flag,
                   prev_cloud_flag, publish_cloud_flag, cloud_xyz,
                   cloud_xyzrgb, cloud_xyzsift>>

\* ----------------------------------------------------------------- the tick
\* What pcl::io::loadPCDFile can do for one kind: return 0, return -1, throw.
LoadResults == {"ok", "fail", "throw"}

\* Mutant of Navigate: the increment is left out.
NavigateNoAdvance(i, advance, retreat) ==
    IF retreat THEN i - 1 ELSE i

\* index++ when auto-next or the next flag, index-- when auto-prev or the
\* prev flag.
Navigate(i, advance, retreat) ==
    LET up == IF advance THEN i + 1 ELSE i
    IN  IF retreat THEN up - 1 ELSE up

\* index < 0
BelowFirst(i) == i < 0

\* index >= files.size(): index is converted to the unsigned type of size(),
\* so a negative index compares as a huge value.
PastLast(i, n) == IF i < 0 THEN TRUE ELSE i >= n

\* files.size() - 1 assigned to the int index: -1 for an empty list.
SizeMinusOne(n) == n - 1

\* Mutant of UnderflowIndex: the index is set to 0 also when looping.
UnderflowIndexNoWrap(n, loop) == 0

\* The index after an underflow: wrap to the last cloud or truncate to 0.
UnderflowIndex(n, loop) == IF loop THEN SizeMinusOne(n) ELSE 0

\* Mutant of OverflowIndex: truncation to size() instead of size() - 1.
OverflowIndexOffByOne(n, loop) == IF loop THEN 0 ELSE n

\* Mutant of OverflowIndex: the index is truncated also when looping.
OverflowIndexNoWrap(n, loop) == SizeMinusOne(n)

\* The index after an overflow: wrap to 0 or truncate to the last cloud.
OverflowIndex(n, loop) == IF loop THEN 0 ELSE SizeMinusOne(n)

\* !(!prop_auto_publish_cloud && !publish_cloud_flag)
PublishAllowed(auto, flag) == auto \/ flag

\* Mutant of CacheHit: the stored clouds are never reused.
CacheHitNever(i, prev) == FALSE

\* index == previous_index: return the stored clouds.
CacheHit(i, prev) == i = prev

\* previous_index = index is executed in the success branch of every kind.
PreviousIndexAfterLoad(prev, i, rx, rc, rs) ==
    IF rx = "ok" \/ rc = "ok" \/ rs = "ok" THEN i ELSE prev

\* Mutant of CloudAfterLoad: the pointer is overridden by the empty temporary
\* cloud when the read fails.
CloudAfterLoadClobbered(cloud, res, f) ==
    IF res = "ok" THEN f ELSE IF res = "fail" THEN EmptyCloud ELSE cloud

\* The cloud pointer of a kind after its load branch.
CloudAfterLoad(cloud, res, f) == IF res = "ok" THEN f ELSE cloud

\* What the port of a kind received in the tick.
PortAfterTick(hit, enabled, cloud, res, f) ==
    IF hit THEN (IF enabled THEN cloud ELSE NoCloud)
    ELSE IF res = "ok" THEN f ELSE NoCloud

\* The flag of a navigation request after the tick: reset in the navigation
\* branch only.
FlagAfterTick(flag, navigated) == IF navigated THEN FALSE ELSE flag

\* Mutant of PublishFlagAfterTick: the request is never reset.
PublishFlagKept(flag, passed) == flag

\* publish_cloud_flag after the tick: reset once the publishing check passed.
PublishFlagAfterTick(flag, passed) == IF passed THEN FALSE ELSE flag

\* Mutant of Navigated: the navigation branch is taken on a reload too.
NavigatedIgnoringReload(reload, prev) == prev # NoIndex

\* The branch taken at the top of the tick: the navigation branch is the
\* else of "reload requested" and of "nothing loaded yet".
Navigated(reload, prev) == ~reload /\ prev # NoIndex

\* Mutant of FilesEmpty: the check for an empty list is left out.
FilesEmptyNever(n) == FALSE

\* files.empty()
FilesEmpty(n) == n = 0

\* files[index]: inside the list its element; outside the list the read is
\* undefined and may give any path.
RecordAt(fs, i) ==
    IF 0 <= i /\ i < Len(fs) THEN {fs[i + 1]} ELSE 0..MaxFile

\* The list and the index as the top of the tick leaves them: findFiles and
\* index = 0 on a reload, index = 0 when nothing was loaded yet, index++ and
\* index-- in the navigation branch.
FilesAfterBranch(found) ==
    IF reload_sequence_flag THEN findFiles(found) ELSE files

IndexAfterBranch ==
    IF Navigated(reload_sequence_flag, previous_index)
    THEN Navigate(index, prop_auto_next_cloud \/ next_cloud_flag,
                         prop_auto_prev_cloud \/ prev_cloud_flag)
    ELSE 0

\* The tick from the reset of the navigation flags to its end, given the
\* branch taken and the list and the index its top left.
TickTail(navigated, files1, i1) ==
    LET n == Len(files1)
        under == navigated /\ BelowFirst(i1)
        i2 == IF under THEN UnderflowIndex(n, prop_loop) ELSE i1
        endedFirst == under /\ ~prop_loop
        over == navigated /\ ~endedFirst /\ PastLast(i2, n)
        i3 == IF over THEN OverflowIndex(n, prop_loop) ELSE i2
        ended == endedFirst \/ (over /\ ~prop_loop)
        empty == ~ended /\ FilesEmpty(n)
        passed == ~ended /\ ~empty
                  /\ PublishAllowed(prop_auto_publish_cloud, publish_cloud_flag)
        hit == passed /\ CacheHit(i3, previous_index)
        load == passed /\ ~hit
    IN
    \E lx \in (IF load /\ prop_return_xyz THEN LoadResults ELSE {"none"}) :
    \E lc \in (IF load /\ prop_return_xyzrgb /\ lx # "throw"
               THEN LoadResults ELSE {"none"}) :
    \E ls \in (IF load /\ prop_return_xyzsift /\ lx # "throw" /\ lc # "throw"
               THEN LoadResults ELSE {"none"}) :
    \E f \in (IF load THEN RecordAt(files1, i3) ELSE {NoCloud}) :
    LET allOk == {lx, lc, ls} \subseteq {"none", "ok"}
    IN
    /\ files' = files1
    /\ index' = i3
    /\ previous_index' = PreviousIndexAfterLoad(previous_index, i3, lx, lc, ls)
    /\ next_cloud_flag' = FlagAfterTick(next_cloud_flag, navigated)
    /\ prev_cloud_flag' = FlagAfterTick(prev_cloud_flag, navigated)
    /\ publish_cloud_flag' = PublishFlagAfterTick(publish_cloud_flag, passed)
    /\ cloud_xyz' = CloudAfterLoad(cloud_xyz, lx, f)
    /\ cloud_xyzrgb' = CloudAfterLoad(cloud_xyzrgb, lc, f)
    /\ cloud_xyzsift' = CloudAfterLoad(cloud_xyzsift, ls, f)
    /\ out_cloud_xyz' = PortAfterTick(hit, prop_return_xyz, cloud_xyz, lx, f)
    /\ out_cloud_xyzrgb' =
           PortAfterTick(hit, prop_return_xyzrgb, cloud_xyzrgb, lc, f)
    /\ out_cloud_xyzsift' =
           PortAfterTick(hit, prop_return_xyzsift, cloud_xyzsift, ls, f)
    /\ out_end_of_sequence_trigger' =
           (IF under THEN 1 ELSE 0) + (IF over THEN 1 ELSE 0)
    /\ step' = IF ended THEN "end"
               ELSE IF empty THEN "empty"
               ELSE IF ~passed THEN "gated"
               ELSE IF hit THEN "cache" ELSE "load"
    /\ res_xyz' = lx
    /\ res_xyzrgb' = lc
    /\ res_xyzsift' = ls
    /\ clean' = (clean /\ allOk)
    /\ ticks' = IF clean /\ allOk THEN Min(ticks + 1, MaxTicks) ELSE 0

\* The tick when no other context runs inside it.
onLoadCloud ==
    /\ pc = "idle"
    /\ \E found \in (IF reload_sequence_flag THEN searchFiles ELSE {<<>>}) :
           TickTail(Navigated(reload_sequence_flag, previous_index),
                    FilesAfterBranch(found), IndexAfterBranch)
    /\ reload_sequence_flag' = FALSE
    /\ UNCHANGED <<props, control>>

\* The tick when another context may run inside it: its top, up to the
\* statements that read the navigation flags.
onLoadCloudBegin ==
    /\ pc = "idle"
    /\ \E found \in (IF reload_sequence_flag THEN searchFiles ELSE {<<>>}) :
           files' = FilesAfterBranch(found)
    /\ index' = IndexAfterBranch
    /\ reload_sequence_flag' = FALSE
    /\ pc' = IF Navigated(reload_sequence_flag, previous_index)
             THEN "reset" ELSE "check"
    /\ midtick' = {}
    /\ UNCHANGED <<props, previous_index, next_cloud_flag, prev_cloud_flag,
                   publish_cloud_flag, cloud_xyz, cloud_xyzrgb, cloud_xyzsift,
                   ports, observed, clean, ticks>>

\* ... and the rest of it, which in the navigation branch starts with the
\* reset of the navigation flags.
onLoadCloudEnd ==
    /\ pc # "idle"
    /\ TickTail(pc = "reset", files, index)
    /\ pc' = "idle"
    /\ UNCHANGED <<props, reload_sequence_flag, midtick>>

\* --------------------------------------------------------------- the system
Next ==
    \/ onLoadCloud
    \/ onPublishCloud
    \/ onTriggeredPublishCloud
    \/ onLoadNextCloud
    \/ onTriggeredLoadNextCloud
    \/ onLoadPrevCloud
    \/ onTriggeredLoadPrevCloud
    \/ onSequenceReload

Spec == Init /\ [][Next]_vars

\* The component started in the configuration of scenario B (loop,
\* auto-advance and auto-publish on, auto-retreat off, some kind enabled).
\* The executor calls onLoadCloud, a handler without dependency, in every one
\* of its steps: the tick is weakly fair.
LoopInit ==
    /\ Init
    /\ prop_loop
    /\ prop_auto_next_cloud
    /\ ~prop_auto_prev_cloud
    /\ prop_auto_publish_cloud
    /\ prop_return_xyz \/ prop_return_xyzrgb \/ prop_return_xyzsift

LoopSpec == LoopInit /\ [][Next]_vars /\ WF_vars(onLoadCloud)

\* The request handlers run in another context than the tick, with no lock in
\* the component: a handler may run between the top of the tick and its rest.
\* One kind and automatic publishing are enough to see the navigation.
RaceInit ==
    /\ Init
    /\ prop_auto_publish_cloud
    /\ prop_return_xyz
    /\ ~prop_return_xyzrgb
    /\ ~prop_return_xyzsift

RaceNext ==
    \/ onLoadCloudBegin
    \/ onLoadCloudEnd
    \/ onPublishCloud
    \/ onTriggeredPublishCloud
    \/ onLoadNextCloud
    \/ onTriggeredLoadNextCloud
    \/ onLoadPrevCloud
    \/ onTriggeredLoadPrevCloud
    \/ onSequenceReload

RaceSpec == RaceInit /\ [][RaceNext]_vars

TypeOK ==
    /\ index \in -1..MaxLen
    /\ previous_index \in -1..(MaxLen - 1)
    /\ Len(files) <= MaxLen
    /\ out_end_of_sequence_trigger \in 0..2
    /\ ticks \in 0..MaxTicks

\* ------------------------------------------------------------- vocabulary
TickEnds == {"end", "empty", "gated", "cache", "load"}

\* The step just taken was a tick.
IsTick == step' \in TickEnds

AnyKind == prop_return_xyz \/ prop_return_xyzrgb \/ prop_return_xyzsift

\* The port of a kind shows that the tick emitted cloud c for every enabled
\* kind (and nothing for the others).
Emitted(c) ==
    /\ out_cloud_xyz = IF prop_return_xyz THEN c ELSE NoCloud
    /\ out_cloud_xyzrgb = IF prop_return_xyzrgb THEN c ELSE NoCloud
    /\ out_cloud_xyzsift = IF prop_return_xyzsift THEN c ELSE NoCloud

EmittedNothing ==
    /\ out_cloud_xyz = NoCloud
    /\ out_cloud_xyzrgb = NoCloud
    /\ out_cloud_xyzsift = NoCloud

\* ------------------------------------------------------------------- C1
\* C1: whenever the Sequence is not empty (in particular after every tick
\* that ends with a non-empty Sequence), 0 <= index < length(Sequence), for
\* every setting of loop, auto-advance, auto-retreat and every sequence of
\* requests.
IndexInRange ==
    Len(files) > 0 => (0 <= index /\ index < Len(files))

\* A tick with loop off ran past the last cloud of a two-cloud Sequence
\* and truncated the index.
IndexInRangeWitness ==
    /\ step = "end"
    /\ ~prop_loop
    /\ Len(files) = 2
    /\ index = 1
    /\ out_end_of_sequence_trigger = 1

\* ------------------------------------------------------------------- C2
\* The undisturbed run of scenario A: loop off, auto-advance and auto-publish
\* on, auto-retreat off, some kind enabled, no request made and every load
\* successful so far.
ScenarioA ==
    /\ clean
    /\ ~prop_loop
    /\ prop_auto_next_cloud
    /\ ~prop_auto_prev_cloud
    /\ prop_auto_publish_cloud
    /\ AnyKind

\* C2: in scenario A on a Sequence of length n >= 1, tick k <= n loads and
\* emits Sequence[k-1] and leaves index = k-1; every later tick leaves
\* index = n-1 and emits no record.
BoundedPlayback ==
    (ScenarioA /\ ticks >= 1 /\ Len(files) >= 1) =>
        IF ticks <= Len(files)
        THEN /\ index = ticks - 1
             /\ step = "load"
             /\ Emitted(files[ticks])
        ELSE /\ index = Len(files) - 1
             /\ step = "end"
             /\ EmittedNothing

\* The tick after the last cloud of a two-cloud Sequence.
BoundedPlaybackWitness ==
    /\ ScenarioA
    /\ Len(files) = 2
    /\ ticks = 3
    /\ index = 1
    /\ EmittedNothing

\* ------------------------------------------------------------------- C3
\* C3: in scenario A the end-of-sequence signal is fired by tick n+1 (the
\* first crossing of length-1) and by no other tick: the ticks after it, with
\* the index truncated to length-1, fire no further signal.
EndOfSequenceOnce ==
    (ScenarioA /\ ticks >= 1 /\ Len(files) >= 1) =>
        out_end_of_sequence_trigger =
            (IF ticks = Len(files) + 1 THEN 1 ELSE 0)

\* ------------------------------------------------------------------- C4
\* The undisturbed run of scenario B: as scenario A with loop on.
ScenarioB ==
    /\ clean
    /\ prop_loop
    /\ prop_auto_next_cloud
    /\ ~prop_auto_prev_cloud
    /\ prop_auto_publish_cloud
    /\ AnyKind

\* The first ticks of scenario B: tick k leaves index = (k-1) mod n and emits
\* Sequence[index]; the signal is fired by exactly the ticks that wrap.
LoopPrefix ==
    (ScenarioB /\ ticks >= 1 /\ ticks < MaxTicks /\ Len(files) >= 1) =>
        /\ index = (ticks - 1) % Len(files)
        /\ Emitted(files[index + 1])
        /\ out_end_of_sequence_trigger =
               (IF ticks > 1 /\ index = 0 THEN 1 ELSE 0)

\* Every tick of scenario B, however late: the index moves on by one modulo
\* n, the tick that wraps fires one signal, and Sequence[index] is emitted.
LoopStep ==
    (IsTick /\ ScenarioB /\ ScenarioB' /\ ticks >= 1 /\ Len(files) >= 1) =>
        /\ index' = (index + 1) % Len(files)
        /\ out_end_of_sequence_trigger' =
               (IF index = Len(files) - 1 THEN 1 ELSE 0)
        /\ Emitted(files[index + 1])'

\* Record i of the Sequence has just been emitted.
EmitsRecord(i) ==
    /\ i <= Len(files)
    /\ index = i - 1
    /\ step \in {"load", "cache"}
    /\ Emitted(files[i])

\* C4: with loop, auto-advance and auto-publish on, some kind enabled and all
\* loads succeeding, the index after successive ticks is 0,1,...,n-1,0,1,...;
\* the tick that wraps fires one end-of-sequence signal, sets index to 0 and
\* emits Sequence[0]; every record is emitted again and again.
LoopPlayback ==
    /\ []LoopPrefix
    /\ [][LoopStep]_vars
    /\ \A i \in 1..MaxLen :
          []<>(~ScenarioB \/ Len(files) < i \/ EmitsRecord(i))

\* The second wrap on a two-cloud Sequence: tick 5 is back on Sequence[0].
LoopPlaybackWitness ==
    /\ ScenarioB
    /\ Len(files) = 2
    /\ ticks = 5
    /\ index = 0
    /\ out_end_of_sequence_trigger = 1
    /\ step = "load"

\* ------------------------------------------------------------------- C5
\* The undisturbed run of scenario D: auto-publish off, auto-advance on,
\* auto-retreat off, some kind enabled, no request (so no publish request)
\* made so far.
ScenarioD ==
    /\ clean
    /\ ~prop_auto_publish_cloud
    /\ prop_auto_next_cloud
    /\ ~prop_auto_prev_cloud
    /\ AnyKind

\* C5 (its part before the publish request): in scenario D no tick emits a
\* record, and the index still advances by one per tick up to the boundary
\* (tick k <= n leaves index = k-1).
GatedNavigationAdvances ==
    (ScenarioD /\ ticks >= 1 /\ Len(files) >= 1) =>
        /\ EmittedNothing
        /\ (ticks <= Len(files) => index = ticks - 1)

\* ------------------------------------------------------------------- C6
\* C6: every request flag set when a tick starts is false when the tick ends,
\* whichever path the tick takes; that is, after a tick no request flag is
\* set.
RequestsConsumedByTick ==
    step \in TickEnds =>
        /\ ~next_cloud_flag
        /\ ~prev_cloud_flag
        /\ ~reload_sequence_flag
        /\ ~publish_cloud_flag

\* ------------------------------------------------------------------- C7
\* An advance (retreat) request made while next_cloud_flag (prev_cloud_flag)
\* is set already.
RepeatedNavigationRequest ==
    \/ next_cloud_flag /\ (onLoadNextCloud \/ onTriggeredLoadNextCloud)
    \/ prev_cloud_flag /\ (onLoadPrevCloud \/ onTriggeredLoadPrevCloud)

\* C7: an advance or retreat request repeated before the next tick leaves
\* the component (properties and members) exactly as the first request left
\* it, so all following ticks see the same state and behave the same.  Only
\* the observation of the step differs ("repeat"), which no handler reads.
RepeatedRequestIdempotent ==
    [][RepeatedNavigationRequest => UNCHANGED <<props, members>>]_vars

\* The advance request has just been repeated, nothing else being requested.
RepeatedRequestWitness ==
    /\ step = "repeat"
    /\ next_cloud_flag
    /\ ~prev_cloud_flag
    /\ ~publish_cloud_flag
    /\ ~reload_sequence_flag
    /\ previous_index # NoIndex

\* ------------------------------------------------------------------- C8
\* No kind was read by the loader in the last tick.
NoLoaderCall ==
    /\ res_xyz = "none"
    /\ res_xyzrgb = "none"
    /\ res_xyzsift = "none"

\* Every enabled kind received its stored cloud.
EmittedCache ==
    /\ out_cloud_xyz = IF prop_return_xyz THEN cloud_xyz ELSE NoCloud
    /\ out_cloud_xyzrgb = IF prop_return_xyzrgb THEN cloud_xyzrgb ELSE NoCloud
    /\ out_cloud_xyzsift =
           IF prop_return_xyzsift THEN cloud_xyzsift ELSE NoCloud

\* Two ticks in a row, both passing the publishing check, the second ending
\* on the index the first ended on.
TwoPublishingTicksSameIndex ==
    /\ step \in {"load", "cache"}
    /\ IsTick
    /\ step' \in {"load", "cache"}
    /\ index' = index

\* The last tick served a cloud: from the cache, or at least one kind from
\* the loader.
Served ==
    \/ step = "cache"
    \/ step = "load" /\ "ok" \in {res_xyz, res_xyzrgb, res_xyzsift}

\* C8 as stated: whenever a tick is run twice with index unchanged between
\* the calls and publishing permitted on both, the second emits the stored
\* cloud of every enabled kind and calls the loader zero times.
SecondTickFromCache ==
    [][TwoPublishingTicksSameIndex =>
          (NoLoaderCall' /\ EmittedCache')]_vars

\* C8 amended: the same, provided the first tick served a cloud (decoded at
\* least one kind successfully or was itself answered from the cache).
SecondTickFromCacheIfServed ==
    [][(TwoPublishingTicksSameIndex /\ Served) =>
          (NoLoaderCall' /\ EmittedCache')]_vars

\* Auto-advance and auto-retreat cancel out: the tick after a load is
\* answered from the cache, without a signal.
SecondTickFromCacheWitness ==
    /\ step = "cache"
    /\ clean
    /\ ticks = 2
    /\ prop_auto_next_cloud
    /\ prop_auto_prev_cloud
    /\ Len(files) = 2
    /\ index = 0
    /\ previous_index = 0
    /\ out_end_of_sequence_trigger = 0
    /\ prop_return_xyz
    /\ out_cloud_xyz = files[1]
    /\ NoLoaderCall

\* ------------------------------------------------------------------- C9
\* C9: once a cloud has been served (previous_index set), the stored cloud of
\* every enabled kind is the decoded record at previous_index of the
\* Sequence.
CacheReflectsPreviousIndex ==
    previous_index # NoIndex =>
        /\ previous_index < Len(files)
        /\ prop_return_xyz => cloud_xyz = files[previous_index + 1]
        /\ prop_return_xyzrgb => cloud_xyzrgb = files[previous_index + 1]
        /\ prop_return_xyzsift => cloud_xyzsift = files[previous_index + 1]

\* ------------------------------------------------------------------ C10
\* One kind in a loading tick on record rec: emitted and stored when the
\* loader succeeded, neither emitted nor touched otherwise.
KindIsolated(res, out, before, after, rec) ==
    IF res = "ok"
    THEN out = rec /\ after = rec
    ELSE out = NoCloud /\ after = before

\* C10: in a loading tick exactly the kinds the loader decoded successfully
\* are emitted (with the record at index); a kind whose load failed emits
\* nothing and keeps the stored cloud it had before the tick.
FailedKindIsolated ==
    [][(IsTick /\ step' = "load") =>
          LET rec == files'[index' + 1]
          IN  /\ KindIsolated(res_xyz', out_cloud_xyz',
                              cloud_xyz, cloud_xyz', rec)
              /\ KindIsolated(res_xyzrgb', out_cloud_xyzrgb',
                              cloud_xyzrgb, cloud_xyzrgb', rec)
              /\ KindIsolated(res_xyzsift', out_cloud_xyzsift',
                              cloud_xyzsift, cloud_xyzsift', rec)]_vars

\* The geometry-only kind was decoded at index 1 while the colour kind
\* failed there and keeps the cloud of index 0.
FailedKindIsolatedWitness ==
    /\ step = "load"
    /\ Len(files) = 2
    /\ index = 1
    /\ res_xyz = "ok"
    /\ res_xyzrgb = "fail"
    /\ out_cloud_xyz = files[2]
    /\ out_cloud_xyzrgb = NoCloud
    /\ cloud_xyzrgb = files[1]

\* ------------------------------------------------------------------ C11
\* The loader was called for every enabled kind.
EveryEnabledKindLoaded ==
    /\ prop_return_xyz => res_xyz # "none"
    /\ prop_return_xyzrgb => res_xyzrgb # "none"
    /\ prop_return_xyzsift => res_xyzsift # "none"

\* C11: an exception of the loader for one kind skips that kind only: in a
\* loading tick the loader is called for every enabled kind, also for the
\* kinds that come after a kind whose load threw.
ThrowSkipsOnlyThatKind ==
    step = "load" => EveryEnabledKindLoaded

\* ------------------------------------------------------------------ C12
\* No enabled kind of the record was decoded in the loading tick just made.
NoKindDecoded ==
    /\ step = "load"
    /\ AnyKind
    /\ "ok" \notin {res_xyz, res_xyzrgb, res_xyzsift}

\* C12: with auto-advance and auto-publish on (auto-retreat off, no retreat
\* request pending), after a tick in which the record at index failed to
\* decode for every enabled kind and which has a following record, the next
\* tick moves the index past it, also when index is 0.
CorruptRecordPassed ==
    [][(/\ IsTick
        /\ NoKindDecoded
        /\ prop_auto_next_cloud
        /\ prop_auto_publish_cloud
        /\ ~prop_auto_prev_cloud
        /\ ~prev_cloud_flag
        /\ index < Len(files) - 1) => index' = index + 1]_vars

\* ------------------------------------------------------------------ C13
\* C13: a tick that ends with an empty Sequence emitted no record, did not
\* call the loader and did not reach the statements that read files[index]:
\* it ended at the boundary check or at the check for an empty list.
EmptySequenceSilent ==
    (step \in TickEnds /\ Len(files) = 0) =>
        /\ EmittedNothing
        /\ NoLoaderCall
        /\ step \in {"end", "empty"}

\* A tick on a Sequence that a reload emptied after a cloud had been served,
\* with automatic publishing and a publish request pending.
EmptySequenceSilentWitness ==
    /\ step = "empty"
    /\ Len(files) = 0
    /\ previous_index # NoIndex
    /\ prop_auto_publish_cloud
    /\ publish_cloud_flag
    /\ prop_return_xyz

\* ------------------------------------------------------------------ C14
\* C14: a tick without reload on an empty Sequence leaves index unchanged
\* and fires no end-of-sequence signal.
EmptyNavigationNoOp ==
    [][(IsTick /\ ~reload_sequence_flag /\ Len(files) = 0) =>
          /\ index' = index
          /\ out_end_of_sequence_trigger' = 0]_vars

\* ------------------------------------------------------------------ C15
\* C15: the first tick finds the reload flag set, and a tick that starts with
\* the reload flag set ends with a freshly listed Sequence, index 0, no
\* end-of-sequence signal and the reload flag reset, whatever the automatic
\* navigation and the pending navigation requests.
ReloadTickRestarts ==
    [][IsTick =>
          /\ step = "init" => reload_sequence_flag
          /\ reload_sequence_flag =>
                 /\ \E found \in searchFiles : files' = findFiles(found)
                 /\ index' = 0
                 /\ out_end_of_sequence_trigger' = 0
                 /\ ~reload_sequence_flag']_vars

\* A reload tick made at index 1 with automatic advance and an advance
\* request pending: the index is 0 and the request is still pending.
ReloadTickRestartsWitness ==
    /\ step \in TickEnds
    /\ prop_auto_next_cloud
    /\ next_cloud_flag
    /\ previous_index = 1
    /\ Len(files) = 2
    /\ index = 0
    /\ out_end_of_sequence_trigger = 0

\* ------------------------------------------------------------------ C16
\* The port of every kind received record c or nothing.
EmittedOnly(c) ==
    /\ out_cloud_xyz \in {c, NoCloud}
    /\ out_cloud_xyzrgb \in {c, NoCloud}
    /\ out_cloud_xyzsift \in {c, NoCloud}

\* C16: on a non-empty Sequence of length n a tick whose navigation takes
\* the index below 0 fires end-of-sequence once; with loop on it leaves
\* index = n-1 and goes on to the publishing (past the gate when publishing
\* is automatic or requested, a load emitting the record at n-1 only); with
\* loop off it leaves index = 0 and ends without a load or an emission.
UnderflowHandled ==
    [][(/\ IsTick
        /\ Navigated(reload_sequence_flag, previous_index)
        /\ Len(files) >= 1
        /\ IndexAfterBranch < 0) =>
          /\ out_end_of_sequence_trigger' = 1
          /\ IF prop_loop
             THEN /\ index' = Len(files) - 1
                  /\ step' \in {"gated", "cache", "load"}
                  /\ (prop_auto_publish_cloud \/ publish_cloud_flag) =>
                         step' \in {"cache", "load"}
                  /\ step' = "load" => EmittedOnly(files[Len(files)])'
             ELSE /\ index' = 0
                  /\ step' = "end"
                  /\ EmittedNothing'
                  /\ NoLoaderCall']_vars

\* A retreat from index 0 of a two-cloud Sequence with loop on: the signal
\* is fired and the last cloud is loaded and emitted.
UnderflowHandledWitness ==
    /\ prop_loop
    /\ ~prop_auto_next_cloud
    /\ step = "load"
    /\ Len(files) = 2
    /\ index = 1
    /\ out_end_of_sequence_trigger = 1
    /\ prop_return_xyz
    /\ out_cloud_xyz = files[2]

\* ------------------------------------------------------------------ C17
\* C17: with auto-publish off a tick emits only when a publish request is
\* pending and then clears it; a tick without a pending request emits
\* nothing, calls no loader and does not raise the request itself: nothing
\* is emitted again until another publish request.
PublishOncePerRequest ==
    [][(IsTick /\ ~prop_auto_publish_cloud) =>
          /\ step' \in {"cache", "load"} =>
                 (publish_cloud_flag /\ ~publish_cloud_flag')
          /\ ~publish_cloud_flag =>
                 /\ EmittedNothing'
                 /\ NoLoaderCall'
                 /\ ~publish_cloud_flag']_vars

\* After the tick that served cloud 0 on request, the next tick advanced to
\* index 1 and was stopped at the publishing check.
PublishOncePerRequestWitness ==
    /\ ~prop_auto_publish_cloud
    /\ step = "gated"
    /\ ~publish_cloud_flag
    /\ previous_index = 0
    /\ index = 1
    /\ EmittedNothing

\* ------------------------------------------------------------------ C18
\* C18: an advance or retreat request made from another context while the
\* tick is in progress is not lost: it is still pending when that tick ends,
\* to be applied by the next one.
TickKeepsConcurrentRequest ==
    (pc = "idle" /\ step \in TickEnds) =>
        /\ "next" \in midtick => next_cloud_flag
        /\ "prev" \in midtick => prev_cloud_flag

\* ------------------------------------------------------------------ C19
\* C19: every record a publishing tick emits, loaded or taken from the
\* cache, is the record at index of the current Sequence, also in a tick
\* that reloads the Sequence; checked from the states in which the stored
\* clouds are the record at previous_index.
EmittedIsCurrentRecord ==
    [][(/\ IsTick
        /\ CacheReflectsPreviousIndex
        /\ step' \in {"cache", "load"}
        /\ ~EmittedNothing') =>
          /\ index' >= 0
          /\ index' < Len(files')
          /\ LET rec == files'[index' + 1]
             IN  /\ out_cloud_xyz' \in {rec, NoCloud}
                 /\ out_cloud_xyzrgb' \in {rec, NoCloud}
                 /\ out_cloud_xyzsift' \in {rec, NoCloud}]_vars

\* ------------------------------------------------------------------ C20
\* C20: a tick fires the end-of-sequence signal at most once.
EndOfSequenceAtMostOnce ==
    out_end_of_sequence_trigger <= 1

====
